---- MODULE Spec2Model ----
(***************************************************************************)
(* Model of the comfyui-generator extension (src/index.js): the Image      *)
(* Record Store (generated_images), the per-job WebSocket channel          *)
(* (connectWebSocket), the generation orchestrator (generateImage) and the *)
(* confirmation dialog that guards the destructive store operations.       *)
(*                                                                         *)
(* Text is modelled as sequences of one-character strings.  A click        *)
(* handler runs to its first suspension point (await fetch) in one step;   *)
(* every WebSocket event handler and promise continuation is one step.     *)
(***************************************************************************)
EXTENDS Integers, Sequences, FiniteSets, TLC

\* ----------------------------------------------------------------- bounds
NumAnchors == 2     \* generate buttons on the page
MaxJobs    == 2     \* correlation ids handed out in one behaviour
MaxEvents  == 2     \* resolving messages delivered in one behaviour
MaxClock   == 2     \* distinct readings of Date.now()
MaxDialogs == 1     \* confirmation dialogs opened in one behaviour
MaxTagLen  == 3     \* characters in a custom tag text handed to FinalPrompt

\* -------------------------------------------------------------- constants
MaxImages == 100    \* src/index.js:89-90

Anchors == 1..NumAnchors

\* ------------------------------------------------------------------- text
EmptyStr == <<>>

\* U+FEFF, which String.prototype.trim strips like a space
Bom == "BOM"

IsSpace(c) == c \in {" ", Bom}

RECURSIVE TrimStart(_)
TrimStart(s) ==
    IF s # <<>> /\ IsSpace(Head(s)) THEN TrimStart(Tail(s)) ELSE s

RECURSIVE TrimEnd(_)
TrimEnd(s) ==
    IF s # <<>> /\ IsSpace(s[Len(s)]) THEN TrimEnd(SubSeq(s, 1, Len(s) - 1)) ELSE s

\* String.prototype.trim
Trim(s) == TrimEnd(TrimStart(s))

\* JavaScript truthiness of a string
Truthy(s) == s # <<>>

\* a || b on strings
OrElse(a, b) == IF Truthy(a) THEN a ELSE b

\* ------------------------------------------------------------ page content
\* The button's id / data-id (replaceImagePrompts) and the client id
\* (generateClientId) are strings with different prefixes.
ButtonId(a) == <<"comfyui-btn", a>>
ClientId(j) == <<"comfyui_generator", j>>

\* data-prompt of the button: the text between image### and ###, trimmed.
\* The pattern admits an empty capture ("image### ###").
PromptOf(a) == IF a = 2 THEN EmptyStr ELSE <<"c", "a", "t">>

\* Position of the button, captured by generateImage for restoration.
MessageIndexOf(a) == a - 1
MessageIdOf(a)    == <<"mesid", a - 1>>
ButtonSelectorOf(a) == <<"#", ButtonId(a)>>

\* ----------------------------------------------------------------- store
\* The record built by saveGeneratedImage from its argument and the clock.
ImageData(imageInfo, t) ==
    [ id             |-> imageInfo.id,
      url            |-> imageInfo.url,
      prompt         |-> imageInfo.prompt,
      originalPrompt |-> OrElse(imageInfo.originalPrompt, imageInfo.prompt),
      customTags     |-> OrElse(imageInfo.customTags, EmptyStr),
      timestamp      |-> t,
      filename       |-> imageInfo.filename,
      subfolder      |-> imageInfo.subfolder,
      type           |-> imageInfo.type,
      buttonId       |-> imageInfo.buttonId,
      messageIndex   |-> imageInfo.messageIndex,
      messageId      |-> imageInfo.messageId,
      buttonSelector |-> imageInfo.buttonSelector ]

Unshift_Replace(list, x) == <<x>>

\* Array.prototype.unshift
Unshift(list, x) == <<x>> \o list

\* Array.prototype.slice(0, n)
SliceFront(list, n) == SubSeq(list, 1, IF Len(list) < n THEN Len(list) ELSE n)

Truncate_NoCap(list) == list

\* "if (length > 100) generated_images = generated_images.slice(0, 100)"
Truncate(list) ==
    IF Len(list) > MaxImages THEN SliceFront(list, MaxImages) ELSE list

SavedImages_Push(list, imageInfo, t) == Truncate(list \o <<ImageData(imageInfo, t)>>)

\* generated_images after saveGeneratedImage(imageInfo) at clock reading t
SavedImages(list, imageInfo, t) == Truncate(Unshift(list, ImageData(imageInfo, t)))

\* generated_images.filter(img => img.id !== imageIdToDelete)
FilterOut(list, imageIdToDelete) ==
    SelectSeq(list, LAMBDA img : img.id # imageIdToDelete)

RemovedAny_Always(before, after) == TRUE

\* "if (generated_images.length < initialLength)"
RemovedAny(before, after) == Len(after) < Len(before)

HasId(list, id) == \E i \in 1..Len(list) : list[i].id = id

\* A record left in the persisted settings by an earlier session; the
\* buttons of that session no longer exist (ids are drawn afresh on load).
StoredRecord(k) ==
    [ id             |-> <<"comfyui-btn-old", k>>,
      url            |-> [server    |-> [scheme |-> "http", host |-> "h"],
                          filename  |-> <<"uri", <<"old", k>> >>,
                          subfolder |-> <<"uri", "">>,
                          type      |-> "output"],
      prompt         |-> <<"o">>,
      originalPrompt |-> <<"o">>,
      customTags     |-> EmptyStr,
      timestamp      |-> 0,
      filename       |-> <<"old", k>>,
      subfolder      |-> "",
      type           |-> "output",
      buttonId       |-> <<"comfyui-btn-old", k>>,
      messageIndex   |-> 0,
      messageId      |-> <<"mesid", 0>>,
      buttonSelector |-> <<"#", <<"comfyui-btn-old", k>> >> ]

\* A stored list of n records, newest (largest k) first.
StoredList(n) == [i \in 1..n |-> StoredRecord(n + 1 - i)]

\* --------------------------------------------------------------- settings
\* comfyui_url is kept as scheme + host.  The text of a workflow template
\* is a sequence of lexical atoms: the punctuation characters of JSON, the
\* quote, the space, number literals, words and placeholder tokens.
NoUrl == [scheme |-> "", host |-> ""]

Urls == { NoUrl,
          [scheme |-> "http", host |-> "h"],
          [scheme |-> "",     host |-> "h"] }      \* address typed without scheme

Quote == "\""

\* { "text": "%positive%" }
ObjectTemplate ==
    <<"{", " ", Quote, "text", Quote, ":", " ", Quote, "%positive%", Quote, " ", "}">>

\* Templates a settings file can hold: none, blank, cut off, a bare number,
\* and a workflow with the placeholder in a string.
Templates == { <<>>, <<" ">>, <<"{", Quote, "text", Quote, ":">>, <<"5">>, ObjectTemplate }

\* DEFAULT_SETTINGS.prompt_placeholder
DefaultPlaceholder == <<"%positive%">>

Configured == [ comfyui_url |-> [scheme |-> "http", host |-> "h"],
                workflow_json |-> ObjectTemplate,
                prompt_placeholder |-> DefaultPlaceholder,
                custom_tags |-> <<" ", "m">> ]

\* Settings as loaded at start-up: the working configuration, and the
\* working configuration with one field wrong.
LoadedSettings ==
    { [Configured EXCEPT !.comfyui_url = u] : u \in Urls }
    \cup { [Configured EXCEPT !.workflow_json = w] : w \in Templates }

\* settings.comfyui_url.replace('http://','ws://').replace('https://','wss://')
WsScheme(scheme) ==
    CASE scheme = "http"  -> "ws"
      [] scheme = "https" -> "wss"
      [] OTHER            -> scheme

\* new WebSocket(url) throws a SyntaxError unless the scheme is ws or wss
ConstructorThrows(url) == WsScheme(url.scheme) \notin {"ws", "wss"}

\* ---------------------------------------------------- workflow documents
\* A parsed workflow: string and number leaves, arrays, and objects kept as
\* the sequence of their <<key, value>> entries.
Str(v) == [t |-> "string", v |-> v]
Num(v) == [t |-> "number", v |-> v]
Arr(v) == [t |-> "array",  v |-> v]
Obj(v) == [t |-> "object", v |-> v]
Lit(v) == [t |-> "literal", v |-> v]     \* true, false, null

NumberAtoms == {"0", "5", "20", "512", "7.0", "12345"}
LiteralAtoms == {"true", "false", "null"}

Fail == [ok |-> FALSE, doc |-> Num("0"), next |-> 0]

RECURSIVE SkipWs(_, _)
SkipWs(text, i) ==
    IF i <= Len(text) /\ text[i] = " " THEN SkipWs(text, i + 1) ELSE i

\* Position of the first atom equal to `atom` at or after i; 0 when none
IndexFrom(text, i, atom) ==
    IF \E k \in i..Len(text) : text[k] = atom
    THEN CHOOSE k \in i..Len(text) :
            text[k] = atom /\ \A m \in i..(k - 1) : text[m] # atom
    ELSE 0

RECURSIVE ParseValue(_, _)
RECURSIVE ParseMembers(_, _, _)
RECURSIVE ParseElements(_, _, _)

\* JSON value starting at position i
ParseValue(text, i) ==
    LET k == SkipWs(text, i)
    IN  IF k > Len(text) THEN Fail
        ELSE IF text[k] = Quote
        THEN LET e == IndexFrom(text, k + 1, Quote)
             IN  IF e = 0 THEN Fail
                 ELSE [ok |-> TRUE, doc |-> Str(SubSeq(text, k + 1, e - 1)), next |-> e + 1]
        ELSE IF text[k] = "{" THEN ParseMembers(text, k + 1, <<>>)
        ELSE IF text[k] = "[" THEN ParseElements(text, k + 1, <<>>)
        ELSE IF text[k] \in NumberAtoms
        THEN [ok |-> TRUE, doc |-> Num(text[k]), next |-> k + 1]
        ELSE IF text[k] \in LiteralAtoms
        THEN [ok |-> TRUE, doc |-> Lit(text[k]), next |-> k + 1]
        ELSE Fail

\* Members of an object, after "{" or after a comma
ParseMembers(text, i, acc) ==
    LET k == SkipWs(text, i)
    IN  IF k > Len(text) THEN Fail
        ELSE IF text[k] = "}" /\ acc = <<>>
        THEN [ok |-> TRUE, doc |-> Obj(<<>>), next |-> k + 1]
        ELSE IF text[k] # Quote THEN Fail
        ELSE LET e == IndexFrom(text, k + 1, Quote)
                 c == SkipWs(text, e + 1)
             IN  IF e = 0 \/ c > Len(text) THEN Fail
                 ELSE IF text[c] # ":" THEN Fail
                 ELSE LET r    == ParseValue(text, c + 1)
                          d    == SkipWs(text, r.next)
                          acc2 == Append(acc, <<SubSeq(text, k + 1, e - 1), r.doc>>)
                      IN  IF ~r.ok THEN Fail
                          ELSE IF d > Len(text) THEN Fail
                          ELSE IF text[d] = "," THEN ParseMembers(text, d + 1, acc2)
                          ELSE IF text[d] = "}"
                          THEN [ok |-> TRUE, doc |-> Obj(acc2), next |-> d + 1]
                          ELSE Fail

\* Elements of an array, after "[" or after a comma
ParseElements(text, i, acc) ==
    LET k == SkipWs(text, i)
    IN  IF k > Len(text) THEN Fail
        ELSE IF text[k] = "]" /\ acc = <<>>
        THEN [ok |-> TRUE, doc |-> Arr(<<>>), next |-> k + 1]
        ELSE LET r    == ParseValue(text, k)
                 d    == SkipWs(text, r.next)
                 acc2 == Append(acc, r.doc)
             IN  IF ~r.ok THEN Fail
                 ELSE IF d > Len(text) THEN Fail
                 ELSE IF text[d] = "," THEN ParseElements(text, d + 1, acc2)
                 ELSE IF text[d] = "]"
                 THEN [ok |-> TRUE, doc |-> Arr(acc2), next |-> d + 1]
                 ELSE Fail

\* JSON.parse(text): ok = FALSE when it throws
JsonParse(text) ==
    LET r == ParseValue(text, 1)
    IN  IF ~r.ok THEN Fail
        ELSE IF SkipWs(text, r.next) <= Len(text) THEN Fail
        ELSE r

\* "if (s.charCodeAt(0) === 0xFEFF) s = s.slice(1)"
StripBom(s) == IF s # <<>> /\ Head(s) = Bom THEN Tail(s) ELSE s

\* "!settings.comfyui_url || !settings.workflow_json"
NotConfigured(st) == st.comfyui_url = NoUrl \/ ~Truthy(st.workflow_json)

\* "!workflow || typeof workflow !== 'object'"
NotAnObject(doc) == doc.t \notin {"object", "array"}

ParseTemplate_NoObjectTest(workflow_json) ==
    LET workflowJson == StripBom(Trim(workflow_json))
        r            == JsonParse(workflowJson)
    IN  IF ~Truthy(workflowJson) THEN "empty_workflow"
        ELSE IF ~r.ok THEN "json_format_error"
        ELSE "ok"

\* Outcome of trim + BOM strip + JSON.parse + object test on the template
\* (generateImage, try block): "ok" or the error thrown.
ParseTemplate(workflow_json) ==
    LET workflowJson == StripBom(Trim(workflow_json))
        r            == JsonParse(workflowJson)
    IN  IF ~Truthy(workflowJson) THEN "empty_workflow"
        ELSE IF ~r.ok THEN "json_format_error"
        ELSE IF NotAnObject(r.doc) THEN "not_an_object"
        ELSE "ok"

\* The backtick and the apostrophe, by name
Backtick   == "backtick"
Apostrophe == "apostrophe"

StartsWith(text, i, word) ==
    /\ i + Len(word) - 1 <= Len(text)
    /\ SubSeq(text, i, i + Len(word) - 1) = word

\* String.prototype.replace's expansion of the replacement string for the
\* match of n atoms at position pos of str: "$$", "$&", "$" + backtick and
\* "$" + apostrophe are patterns (there are no capture groups, so $1..$9
\* stay as they are).
RECURSIVE GetSubstitution(_, _, _, _)
GetSubstitution(repl, str, pos, n) ==
    IF repl = <<>> THEN <<>>
    ELSE IF Len(repl) >= 2 /\ repl[1] = "$" /\ repl[2] \in {"$", "&", Backtick, Apostrophe}
    THEN (CASE repl[2] = "$"      -> <<"$">>
            [] repl[2] = "&"      -> SubSeq(str, pos, pos + n - 1)
            [] repl[2] = Backtick -> SubSeq(str, 1, pos - 1)
            [] OTHER              -> SubSeq(str, pos + n, Len(str)))
         \o GetSubstitution(SubSeq(repl, 3, Len(repl)), str, pos, n)
    ELSE <<Head(repl)>> \o GetSubstitution(Tail(repl), str, pos, n)

RECURSIVE ReplaceFrom(_, _, _, _)
ReplaceFrom(str, k, token, repl) ==
    IF k > Len(str) THEN <<>>
    ELSE IF token # <<>> /\ StartsWith(str, k, token)
    THEN GetSubstitution(repl, str, k, Len(token))
         \o ReplaceFrom(str, k + Len(token), token, repl)
    ELSE <<str[k]>> \o ReplaceFrom(str, k + 1, token, repl)

\* str.replace(new RegExp(escaped token, "g"), repl) for a non-empty token
StringReplaceAll(str, token, repl) == ReplaceFrom(str, 1, token, repl)

\* replaceInObject(obj, placeholderToReplace, replacementValue)
RECURSIVE replaceInObject(_, _, _)
replaceInObject(obj, placeholderToReplace, replacementValue) ==
    CASE obj.t = "string" ->
            Str(StringReplaceAll(obj.v, placeholderToReplace, replacementValue))
      [] obj.t = "array" ->
            Arr([i \in 1..Len(obj.v) |->
                    replaceInObject(obj.v[i], placeholderToReplace, replacementValue)])
      [] obj.t = "object" ->
            Obj([i \in 1..Len(obj.v) |->
                    <<obj.v[i][1],
                      replaceInObject(obj.v[i][2], placeholderToReplace, replacementValue)>>])
      [] OTHER -> obj

\* ------------------------------------------------------------- validation
TempQuoted(word) == <<Quote, word, Quote>>

\* placeholderReplacements, the entries for named tokens
NamedReplacements ==
    << <<"%positive%",  TempQuoted("temp_positive_placeholder")>>,
       <<"%negative%",  TempQuoted("temp_negative_placeholder")>>,
       <<"%seed%",      <<"12345">> >>,
       <<"%width%",     <<"512">> >>,
       <<"%height%",    <<"512">> >>,
       <<"%steps%",     <<"20">> >>,
       <<"%cfg%",       <<"7.0">> >>,
       <<"%sampler%",   TempQuoted("euler")>>,
       <<"%scheduler%", TempQuoted("normal")>> >>

\* Atoms of the form %name%
PercentTokens ==
    {NamedReplacements[i][1] : i \in 1..Len(NamedReplacements)} \cup {"%custom%"}

RECURSIVE ReplaceAtoms(_, _, _)
ReplaceAtoms(text, atoms, repl) ==
    IF text = <<>> THEN <<>>
    ELSE (IF Head(text) \in atoms THEN repl ELSE <<Head(text)>>)
         \o ReplaceAtoms(Tail(text), atoms, repl)

RECURSIVE ReplaceNamed(_, _)
ReplaceNamed(text, n) ==
    IF n > Len(NamedReplacements) THEN text
    ELSE ReplaceNamed(ReplaceAtoms(text, {NamedReplacements[n][1]},
                                   NamedReplacements[n][2]), n + 1)

\* End of the longest run of atoms other than `stop` that starts at i
RECURSIVE RunEnd(_, _, _)
RunEnd(text, i, stop) ==
    IF i <= Len(text) /\ text[i] # stop THEN RunEnd(text, i + 1, stop) ELSE i - 1

\* text.replace(/open[^stop]+close/g, repl): leftmost matches, left to right
RECURSIVE ReplaceBracketed(_, _, _, _, _, _)
ReplaceBracketed(text, i, open, stop, close, repl) ==
    IF i > Len(text) THEN <<>>
    ELSE LET b == i + Len(open)
             e == RunEnd(text, b, stop)
         IN  IF StartsWith(text, i, open) /\ e >= b /\ StartsWith(text, e + 1, close)
             THEN repl \o ReplaceBracketed(text, e + 1 + Len(close), open, stop, close, repl)
             ELSE <<text[i]>> \o ReplaceBracketed(text, i + 1, open, stop, close, repl)

\* The text validateWorkflowJson hands to JSON.parse
TempJson(cleanJson) ==
    LET named    == ReplaceNamed(cleanJson, 1)
        braces   == ReplaceBracketed(named, 1, <<"{", "{">>, "}", <<"}", "}">>,
                                     TempQuoted("temp_placeholder"))
        brackets == ReplaceBracketed(braces, 1, <<"[">>, "]", <<"]">>,
                                     TempQuoted("temp_placeholder"))
    IN  ReplaceAtoms(brackets, PercentTokens, TempQuoted("temp_placeholder"))

\* validateWorkflowJson(jsonString).valid
validateWorkflowJson(jsonString) ==
    IF ~Truthy(jsonString) \/ ~Truthy(Trim(jsonString)) THEN FALSE
    ELSE JsonParse(TempJson(StripBom(Trim(jsonString)))).ok

FinalPrompt_NoTrim(custom_tags, prompt) ==
    IF Truthy(custom_tags) /\ Truthy(Trim(custom_tags))
    THEN custom_tags \o <<",", " ">> \o prompt
    ELSE prompt

\* finalPrompt of generateImage
FinalPrompt(custom_tags, prompt) ==
    IF Truthy(custom_tags) /\ Truthy(Trim(custom_tags))
    THEN Trim(custom_tags) \o <<",", " ">> \o prompt
    ELSE prompt

\* encodeURIComponent
EncodeURIComponent(x) == <<"uri", x>>

\* getGeneratedImage: the subfolder parameter is left out when it is falsy
GetGeneratedImage(st, filename, subfolder, type) ==
    [ server    |-> st.comfyui_url,
      filename  |-> EncodeURIComponent(filename),
      subfolder |-> EncodeURIComponent(subfolder),
      type      |-> type ]

\* ---------------------------------------------------------- channel input
\* Image descriptors of an 'executed' message (data.output.images).
FirstDescriptor  == [filename |-> <<"a.png", 0>>, subfolder |-> "",    type |-> "output"]
SecondDescriptor == [filename |-> <<"b.png", 0>>, subfolder |-> "sub", type |-> "temp"]

ImageLists == { <<>>, <<FirstDescriptor>>, <<FirstDescriptor, SecondDescriptor>> }

\* event.data of one WebSocket message.  parsed = FALSE: JSON.parse throws
\* (binary preview frame); hasImages: data.data.output.images is present.
Messages ==
    [ parsed : {TRUE}, type : {"crystools.monitor", "status", "progress", "executing"},
      hasImages : {FALSE}, images : {<<>>}, exception_message : {""} ]
    \cup
    [ parsed : {TRUE}, type : {"executed"},
      hasImages : {TRUE}, images : ImageLists, exception_message : {""} ]
    \cup
    [ parsed : {TRUE}, type : {"executed"},
      hasImages : {FALSE}, images : {<<>>}, exception_message : {""} ]
    \cup
    [ parsed : {TRUE}, type : {"execution_error"},
      hasImages : {FALSE}, images : {<<>>}, exception_message : {"", "oom"} ]
    \cup
    [ parsed : {FALSE}, type : {""},
      hasImages : {FALSE}, images : {<<>>}, exception_message : {""} ]

Classify_ElseError(m) ==
    IF ~m.parsed THEN "ignored"
    ELSE IF m.type \in {"crystools.monitor", "status", "progress"} THEN "ignored"
    ELSE IF m.type = "executed" /\ m.hasImages THEN "images"
    ELSE "error"

\* ws.onmessage: which callback the message reaches
Classify(m) ==
    IF ~m.parsed THEN "ignored"
    ELSE IF m.type \in {"crystools.monitor", "status", "progress"} THEN "ignored"
    ELSE IF m.type = "executed" /\ m.hasImages THEN "images"
    ELSE IF m.type = "execution_error" THEN "error"
    ELSE "ignored"

ExceptionText_Default(m) == "unknown_error"

\* data.data.exception_message || '未知错误'
ExceptionText(m) == IF m.exception_message # "" THEN m.exception_message ELSE "unknown_error"

\* The category the catch block of generateImage picks by keyword
\* (error.message.includes ...).
CatchToast(err) ==
    CASE err \in {"empty_workflow", "json_format_error", "not_an_object"}
                                  -> <<"generate_failed", "workflow_processing">>
      [] err = "fetch_failed"     -> <<"generate_failed", "network">>
      [] err = "no_websocket"     -> <<"generate_failed", "realtime_connection">>
      [] OTHER                    -> <<"generate_failed", err>>

\* ------------------------------------------------------------------ state
VARIABLES
    settings,        \* extension_settings[EXTENSION_NAME] without the store
    images,          \* extension_settings[EXTENSION_NAME].generated_images
    now,             \* last reading of Date.now()
    disabled,        \* disabled property of each generate button
    html,            \* content of each generate button
    jobs,            \* one entry per generateClientId() call, in call order
    wsConnections,   \* keys of the wsConnections map
    modal,           \* the confirmation dialog and the callback it holds
    dialogs,         \* number of showCustomConfirm calls so far
    delivered,       \* number of resolving channel messages so far
    fx,              \* what the last handler run did (Fx)
    form,            \* values of the four input fields of the settings popup
    call,            \* a function applied on its own: name, arguments, result
    defaults,        \* DEFAULT_SETTINGS.generated_images, and whether the store is that array
    restore          \* the page and the run of restoreStoredImages (NoRestore)

vars == <<settings, images, now, disabled, html, jobs, wsConnections, modal, dialogs, delivered,
          fx, form, call, defaults, restore>>

\* DEFAULT_SETTINGS.generated_images as declared; the store is an array of
\* its own when the loaded settings already had the field.
OwnArray == [generated_images |-> <<>>, aliased |-> FALSE]

\* The chat page (its messages, each with its generate buttons) before
\* restoreStoredImages has been asked for.
IdleOn(page) ==
    [ phase |-> "idle", page |-> page, candidates |-> <<>>, anchors |-> <<>>,
      timers |-> {}, restoredCount |-> 0, failedCount |-> 0, summaries |-> 0,
      shown |-> {}, loading |-> {} ]

\* No chat open, no restoration asked for
NoRestore == IdleOn(<<>>)

\* The four input fields as the page is loaded (settings.html): empty
EmptyForm == [ comfyui_url |-> NoUrl, workflow_json |-> <<>>,
               prompt_placeholder |-> <<>>, custom_tags |-> <<>> ]

\* The dialog: which callback its confirm button holds, and the values the
\* callback closed over (a record id, or the four values to save).
NoModal == [kind |-> "none", id |-> <<"", 0>>, captured |-> EmptyForm]

NoCall == [fn |-> "none", args |-> <<>>, done |-> FALSE, result |-> <<>>]

\* Effects of one handler run: which handler it was, the callback it
\* invoked (of which job, with which argument), whether it called
\* saveSettingsDebounced and renderImageHistory, and the toasts it raised.
Fx(op, job, cb, arg, saved, rendered, toasts) ==
    [ op |-> op, job |-> job, cb |-> cb, arg |-> arg,
      saved |-> saved, rendered |-> rendered, toasts |-> toasts ]

Quiet(op) == Fx(op, 0, "none", "", FALSE, FALSE, <<>>)

JobIds == 1..Len(jobs)

\* Start-up with settings that were saved before any image: loaded
\* settings, empty store.
Init ==
    /\ settings \in LoadedSettings
    /\ images = StoredList(0)
    /\ now = 1
    /\ disabled = [a \in Anchors |-> FALSE]
    /\ html = [a \in Anchors |-> "original"]
    /\ jobs = <<>>
    /\ wsConnections = {}
    /\ modal = NoModal
    /\ dialogs = 0
    /\ delivered = 0
    /\ fx = Quiet("init")
    /\ form = EmptyForm
    /\ call = NoCall
    /\ defaults = OwnArray
    /\ restore = NoRestore

\* $button.html(originalButtonHtml).prop('disabled', false)
Restore(a) ==
    /\ disabled' = [disabled EXCEPT ![a] = FALSE]
    /\ html' = [html EXCEPT ![a] = "original"]

\* The job has been reported finished: one of its two callbacks or the
\* catch block of generateImage has run for it.
Resolved(job) == [job EXCEPT !.resolved = TRUE]

\* ------------------------------------------------------------ orchestrator
SettingsAfterGenerate_Filled(st) ==
    [st EXCEPT !.workflow_json = StringReplaceAll(@, st.prompt_placeholder, <<"x">>)]

\* generateImage reads the settings object and assigns only its own local
\* variables (workflowJson, workflow): the object is left as it was.
SettingsAfterGenerate(st) == st

\* Click on a generate button: generateImage(prompt, buttonId, $button) up
\* to its first suspension point, "await fetch".  A disabled button and a
\* button under the dialog overlay receive no click.
generateImage(a) ==
    /\ modal = NoModal
    /\ ~disabled[a]
    /\ Len(jobs) < MaxJobs
    /\ LET prompt      == PromptOf(a)
           finalPrompt == FinalPrompt(settings.custom_tags, prompt)
           parse       == ParseTemplate(settings.workflow_json)
           clientId    == Len(jobs) + 1
           job         == [ anchor |-> a, prompt |-> prompt, finalPrompt |-> finalPrompt,
                            server |-> settings.comfyui_url,
                            ws |-> "connecting", http |-> "pending",
                            resolved |-> FALSE ]
       IN  IF NotConfigured(settings)
           THEN \* early return
                /\ Restore(a)
                /\ fx' = Fx("generateImage", 0, "none", "", FALSE, FALSE,
                            << <<"error", "configure_first">> >>)
                /\ UNCHANGED <<jobs, wsConnections>>
           ELSE IF parse # "ok"
           THEN \* thrown inside try, handled by catch
                /\ Restore(a)
                /\ fx' = Fx("generateImage", 0, "none", "", FALSE, FALSE, <<CatchToast(parse)>>)
                /\ UNCHANGED <<jobs, wsConnections>>
           ELSE IF ConstructorThrows(settings.comfyui_url)
           THEN \* connectWebSocket: catch -> onError -> return null; then
                \* generateImage throws and its own catch runs
                /\ Restore(a)
                /\ jobs' = Append(jobs, [job EXCEPT !.ws = "none", !.http = "notsent",
                                                    !.resolved = TRUE])
                /\ fx' = Fx("generateImage", clientId, "onError", "cannot_create_websocket",
                            FALSE, FALSE,
                            << <<"error", "cannot_create_websocket">>,
                               CatchToast("no_websocket") >>)
                /\ UNCHANGED wsConnections
           ELSE \* channel created and registered, request on its way
                /\ disabled' = [disabled EXCEPT ![a] = TRUE]
                /\ html' = [html EXCEPT ![a] = "spinner"]
                /\ jobs' = Append(jobs, job)
                /\ wsConnections' = wsConnections \cup {ClientId(clientId)}
                /\ fx' = Quiet("generateImage")
    /\ settings' = SettingsAfterGenerate(settings)
    /\ UNCHANGED <<form, call, restore, defaults, images, now, modal, dialogs, delivered>>

\* "await fetch" resolves (no-cors: any response at all)
FetchResolved(j) ==
    /\ jobs[j].http = "pending"
    /\ jobs' = [jobs EXCEPT ![j].http = "ok"]
    /\ fx' = Fx("fetch", 0, "none", "", FALSE, FALSE,
                << <<"success", "request_sent">> >>)
    /\ UNCHANGED <<settings, form, call, restore, defaults, images, now, disabled, html, wsConnections, modal, dialogs, delivered>>

\* "await fetch" rejects (network failure): the catch block runs
FetchRejected(j) ==
    /\ jobs[j].http = "pending"
    /\ jobs' = [jobs EXCEPT ![j] = Resolved([@ EXCEPT !.http = "failed"])]
    /\ Restore(jobs[j].anchor)
    /\ fx' = Fx("fetch", 0, "none", "", FALSE, FALSE, <<CatchToast("fetch_failed")>>)
    /\ UNCHANGED <<settings, form, call, restore, defaults, images, now, wsConnections, modal, dialogs, delivered>>

\* The argument generateImage's onImageGenerated callback hands to
\* saveGeneratedImage for the first descriptor.
ImageInfoFor(job, st, imageInfo) ==
    [ id             |-> ButtonId(job.anchor),
      url            |-> GetGeneratedImage(st, imageInfo.filename, imageInfo.subfolder,
                                           imageInfo.type),
      prompt         |-> job.finalPrompt,
      originalPrompt |-> job.prompt,
      customTags     |-> OrElse(st.custom_tags, EmptyStr),
      filename       |-> imageInfo.filename,
      subfolder      |-> imageInfo.subfolder,
      type           |-> imageInfo.type,
      buttonId       |-> ButtonId(job.anchor),
      messageIndex   |-> MessageIndexOf(job.anchor),
      messageId      |-> MessageIdOf(job.anchor),
      buttonSelector |-> ButtonSelectorOf(job.anchor) ]

\* unshift works on the array in place, so an array shared with
\* DEFAULT_SETTINGS grows with the store; slice(0, 100) gives the store an
\* array of its own and leaves the shared one as it is.
DefaultsAfterSave(d, list, imageInfo, t) ==
    IF d.aliased
    THEN [ generated_images |-> Unshift(list, ImageData(imageInfo, t)),
           aliased          |-> Len(list) + 1 <= MaxImages ]
    ELSE d

\* filter(...) and "= []" give the store an array of its own
DefaultsAfterAssign(d) == [d EXCEPT !.aliased = FALSE]

\* saveGeneratedImage(imageInfo): the store and the clock it reads
saveGeneratedImage(imageInfo) ==
    \E t \in {now, IF now < MaxClock THEN now + 1 ELSE now} :
        /\ now' = t
        /\ images' = SavedImages(images, imageInfo, t)
        /\ defaults' = DefaultsAfterSave(defaults, images, imageInfo, t)

\* ---------------------------------------------------------------- channel
ws_onopen(j) ==
    /\ jobs[j].ws = "connecting"
    /\ jobs' = [jobs EXCEPT ![j].ws = "open"]
    /\ fx' = Quiet("onopen")
    /\ UNCHANGED <<settings, form, call, restore, defaults, images, now, disabled, html, wsConnections, modal, dialogs, delivered>>

\* ws.onmessage with the callbacks generateImage passed in.  The server
\* sends resolving messages only for a prompt it has been sent.
ws_onmessage(j, m) ==
    /\ jobs[j].ws = "open"
    /\ LET job == jobs[j]
           c   == Classify(m)
       IN  CASE c = "images" ->
                  /\ job.http \in {"pending", "ok"}
                  /\ delivered < MaxEvents
                  /\ IF Len(m.images) > 0
                     THEN /\ saveGeneratedImage(ImageInfoFor(job, settings, m.images[1]))
                          /\ jobs' = [jobs EXCEPT ![j] = Resolved(@)]
                          /\ fx' = Fx("onmessage", j, "onImageGenerated", "", TRUE, TRUE,
                                      << <<"success", "generation_done">> >>)
                     ELSE /\ jobs' = [jobs EXCEPT ![j] = Resolved(@)]
                          /\ fx' = Fx("onmessage", j, "onImageGenerated", "", FALSE, FALSE,
                                      << <<"error", "no_images_returned">> >>)
                          /\ UNCHANGED <<defaults, images, now>>
                  /\ Restore(job.anchor)
                  /\ delivered' = delivered + 1
            [] c = "error" ->
                  /\ job.http \in {"pending", "ok"}
                  /\ delivered < MaxEvents
                  /\ jobs' = [jobs EXCEPT ![j] = Resolved(@)]
                  /\ Restore(job.anchor)
                  /\ fx' = Fx("onmessage", j, "onError", ExceptionText(m), FALSE, FALSE,
                              << <<"error", ExceptionText(m)>> >>)
                  /\ delivered' = delivered + 1
                  /\ UNCHANGED <<defaults, images, now>>
            [] OTHER ->
                  /\ fx' = Quiet("onmessage")
                  /\ UNCHANGED <<defaults, images, now, jobs, disabled, html, delivered>>
    /\ UNCHANGED <<settings, form, call, restore, wsConnections, modal, dialogs>>

\* ws.onerror; the browser fires close after it
ws_onerror(j) ==
    /\ jobs[j].ws \in {"connecting", "open"}
    /\ jobs' = [jobs EXCEPT ![j] = Resolved([@ EXCEPT !.ws = "errored"])]
    /\ Restore(jobs[j].anchor)
    /\ fx' = Fx("onerror", j, "onError", "websocket_connection_error", FALSE, FALSE,
                << <<"error", "websocket_connection_error">> >>)
    /\ UNCHANGED <<settings, form, call, restore, defaults, images, now, wsConnections, modal, dialogs, delivered>>

ws_onclose_Reconnect(j) ==
    /\ jobs[j].ws \in {"open", "errored"}
    /\ jobs' = [jobs EXCEPT ![j].ws = "connecting"]
    /\ wsConnections' = wsConnections
    /\ fx' = Quiet("onclose")
    /\ UNCHANGED <<settings, form, call, restore, defaults, images, now, disabled, html, modal, dialogs, delivered>>

\* ws.onclose: after an error, or when the server ends an open connection
ws_onclose(j) ==
    /\ jobs[j].ws \in {"open", "errored"}
    /\ jobs' = [jobs EXCEPT ![j].ws = "closed"]
    /\ wsConnections' = wsConnections \ {ClientId(j)}
    /\ fx' = Quiet("onclose")
    /\ UNCHANGED <<settings, form, call, restore, defaults, images, now, disabled, html, modal, dialogs, delivered>>

\* ----------------------------------------------------- store, user-facing
\* History items whose delete button the user presses: the newest two and
\* the oldest one.
DeletePositions(list) == {1, 2, Len(list)} \cap (1..Len(list))

\* Click on .comfyui-delete-history-btn: showCustomConfirm with a callback
\* that holds the id read from the item (renderImageHistory).
ClickDeleteHistory(i) ==
    /\ modal = NoModal
    /\ dialogs < MaxDialogs
    /\ i \in DeletePositions(images)
    /\ modal' = [kind |-> "delete", id |-> images[i].id, captured |-> EmptyForm]
    /\ dialogs' = dialogs + 1
    /\ fx' = Quiet("click")
    /\ UNCHANGED <<settings, form, call, restore, defaults, images, now, disabled, html, jobs, wsConnections, delivered>>

\* clearAllGeneratedImages: only opens the dialog
clearAllGeneratedImages ==
    /\ modal = NoModal
    /\ dialogs < MaxDialogs
    /\ modal' = [kind |-> "clear", id |-> <<"", 0>>, captured |-> EmptyForm]
    /\ dialogs' = dialogs + 1
    /\ fx' = Quiet("click")
    /\ UNCHANGED <<settings, form, call, restore, defaults, images, now, disabled, html, jobs, wsConnections, delivered>>

\* deleteImageEntry(imageIdToDelete), run by the dialog's confirm button
deleteImageEntry(imageIdToDelete) ==
    /\ modal.kind = "delete"
    /\ modal.id = imageIdToDelete
    /\ LET after == FilterOut(images, imageIdToDelete)
       IN  /\ images' = after
           /\ fx' = IF RemovedAny(images, after)
                    THEN Fx("deleteImageEntry", 0, "none", "", TRUE, TRUE,
                            << <<"success", "record_deleted">> >>)
                    ELSE Fx("deleteImageEntry", 0, "none", "", FALSE, FALSE,
                            << <<"error", "record_not_found">> >>)
    /\ defaults' = DefaultsAfterAssign(defaults)
    /\ modal' = NoModal
    /\ UNCHANGED <<settings, form, call, restore, now, disabled, html, jobs, wsConnections, dialogs, delivered>>

\* The confirm callback of clearAllGeneratedImages
ConfirmClear ==
    /\ modal.kind = "clear"
    /\ images' = <<>>
    /\ defaults' = DefaultsAfterAssign(defaults)
    /\ modal' = NoModal
    /\ fx' = Fx("clear", 0, "none", "", TRUE, TRUE, << <<"success", "all_cleared">> >>)
    /\ UNCHANGED <<settings, form, call, restore, now, disabled, html, jobs, wsConnections, dialogs, delivered>>

\* #confirm-no-btn: onCancel is the empty default
ConfirmNo ==
    /\ modal # NoModal
    /\ modal' = NoModal
    /\ fx' = Quiet("cancel")
    /\ UNCHANGED <<settings, form, call, restore, defaults, images, now, disabled, html, jobs, wsConnections, dialogs, delivered>>

\* --------------------------------------------------------- settings popup
\* Unquoted placeholder, and a workflow without any placeholder
UnquotedTemplate == <<"{", Quote, "text", Quote, ":", "%positive%", "}">>
PlainTemplate    == <<"{", Quote, "text", Quote, ":", Quote, "cat", Quote, "}">>

\* What the user has typed into the four fields when pressing save.  The
\* address is typed without surrounding spaces.
SaveInputs ==
    { [Configured EXCEPT !.custom_tags = <<"m">>],
      [Configured EXCEPT !.comfyui_url = NoUrl],
      [Configured EXCEPT !.workflow_json = <<>>],
      [Configured EXCEPT !.workflow_json = <<" ">> \o UnquotedTemplate,
                         !.prompt_placeholder = <<>>,
                         !.custom_tags = <<" ", "m", " ">>],
      [Configured EXCEPT !.workflow_json = PlainTemplate,
                         !.prompt_placeholder = <<" ", "%custom%">>],
      [Configured EXCEPT !.workflow_json = <<"{", Quote, "text", Quote, ":">>,
                         !.custom_tags = <<>>] }

\* url, placeholder, customTags, workflowJson of the save handler
Captured(f) ==
    [ comfyui_url        |-> f.comfyui_url,
      prompt_placeholder |-> OrElse(Trim(f.prompt_placeholder), DefaultPlaceholder),
      custom_tags        |-> Trim(f.custom_tags),
      workflow_json      |-> Trim(f.workflow_json) ]

\* String.prototype.includes for a non-empty word
Includes(text, word) == \E i \in 1..Len(text) : StartsWith(text, i, word)

SaveDecision_NoPlaceholderCheck(v) ==
    IF v.comfyui_url = NoUrl THEN "reject"
    ELSE IF Truthy(v.workflow_json) /\ ~validateWorkflowJson(v.workflow_json)
    THEN "force_save"
    ELSE "save"

\* The branch the save handler takes for the values it read
SaveDecision(v) ==
    IF v.comfyui_url = NoUrl THEN "reject"
    ELSE IF Truthy(v.workflow_json) /\ ~validateWorkflowJson(v.workflow_json)
    THEN "force_save"
    ELSE IF Truthy(v.workflow_json) /\ ~Includes(v.workflow_json, v.prompt_placeholder)
    THEN "missing_placeholder"
    ELSE "save"

\* workflowJson.match(new RegExp(escaped word, "g")).length
RECURSIVE CountFrom(_, _, _)
CountFrom(text, i, word) ==
    IF i > Len(text) THEN 0
    ELSE IF StartsWith(text, i, word) THEN 1 + CountFrom(text, i + Len(word), word)
    ELSE CountFrom(text, i + 1, word)

\* saveSettingsProceed(url, placeholder, customTags, workflowJson); its
\* success toast comes from a timer it starts.
saveSettingsProceed(v) ==
    settings' = [ comfyui_url        |-> v.comfyui_url,
                  prompt_placeholder |-> v.prompt_placeholder,
                  custom_tags        |-> v.custom_tags,
                  workflow_json      |-> v.workflow_json ]

\* Click on #comfyui-save-settings with the fields holding f
SaveSettingsClick(f) ==
    /\ modal = NoModal
    /\ form' = f
    /\ LET v == Captured(f)
           d == SaveDecision(v)
       IN  CASE d = "reject" ->
                  /\ fx' = Fx("saveSettings", 0, "none", "", FALSE, FALSE,
                              << <<"error", "address_required">> >>)
                  /\ UNCHANGED <<settings, modal, dialogs>>
             [] d \in {"force_save", "missing_placeholder"} ->
                  /\ dialogs < MaxDialogs
                  /\ modal' = [kind |-> d, id |-> <<"", 0>>, captured |-> v]
                  /\ dialogs' = dialogs + 1
                  /\ fx' = Quiet("saveSettings")
                  /\ UNCHANGED settings
             [] OTHER ->
                  /\ saveSettingsProceed(v)
                  /\ fx' = Fx("saveSettings", 0, "none", "", TRUE, FALSE,
                              IF ~Truthy(v.workflow_json)
                              THEN << <<"warning", "workflow_empty">> >>
                              ELSE IF CountFrom(v.workflow_json, 1, v.prompt_placeholder) > 1
                              THEN << <<"info", "placeholder_repeated">> >>
                              ELSE <<>>)
                  /\ UNCHANGED <<modal, dialogs>>
    /\ UNCHANGED <<call, restore, defaults, images, now, disabled, html, jobs, wsConnections, delivered>>

\* #confirm-yes-btn of a dialog the save handler opened
ConfirmSave ==
    /\ modal.kind \in {"force_save", "missing_placeholder"}
    /\ saveSettingsProceed(modal.captured)
    /\ modal' = NoModal
    /\ fx' = Fx("confirmSave", 0, "none", "", TRUE, FALSE,
                IF modal.kind = "force_save"
                THEN << <<"warning", "saved_with_invalid_workflow">> >>
                ELSE <<>>)
    /\ UNCHANGED <<form, call, restore, defaults, images, now, disabled, html, jobs, wsConnections, dialogs, delivered>>

\* ---------------------------------------------------------- specification
Next ==
    \/ \E a \in Anchors : generateImage(a)
    \/ \E j \in JobIds : FetchResolved(j)
    \/ \E j \in JobIds : FetchRejected(j)
    \/ \E j \in JobIds : ws_onopen(j)
    \/ \E j \in JobIds : \E m \in Messages : ws_onmessage(j, m)
    \/ \E j \in JobIds : ws_onerror(j)
    \/ \E j \in JobIds : ws_onclose(j)
    \/ \E i \in 1..MaxImages : ClickDeleteHistory(i)
    \/ clearAllGeneratedImages
    \/ \E id \in {modal.id} : deleteImageEntry(id)
    \/ ConfirmClear
    \/ ConfirmNo

Spec == Init /\ [][Next]_vars

\* ------------------------------------------- the store taken on its own
\* The store after earlier sessions: one record short of full, or full.
InitStore ==
    /\ settings = Configured
    /\ images \in { StoredList(MaxImages - 1), StoredList(MaxImages) }
    /\ now = 1
    /\ disabled = [a \in Anchors |-> FALSE]
    /\ html = [a \in Anchors |-> "original"]
    /\ jobs = <<>>
    /\ wsConnections = {}
    /\ modal = NoModal
    /\ dialogs = 0
    /\ delivered = 0
    /\ fx = Quiet("init")
    /\ form = EmptyForm
    /\ call = NoCall
    /\ defaults = OwnArray
    /\ restore = NoRestore

\* The job generateImage builds for a click on button a
JobOf(a) ==
    [ anchor |-> a, prompt |-> PromptOf(a),
      finalPrompt |-> FinalPrompt(settings.custom_tags, PromptOf(a)),
      server |-> settings.comfyui_url,
      ws |-> "open", http |-> "ok", resolved |-> FALSE ]

\* saveGeneratedImage with its persistence and re-render calls, for the
\* image of a generation started from button a.
StoreAppend(a) ==
    /\ delivered < MaxEvents
    /\ saveGeneratedImage(ImageInfoFor(JobOf(a), settings, FirstDescriptor))
    /\ delivered' = delivered + 1
    /\ fx' = Fx("saveGeneratedImage", 0, "none", "", TRUE, TRUE, <<>>)
    /\ UNCHANGED <<settings, form, call, restore, disabled, html, jobs, wsConnections, modal, dialogs>>

NextStore ==
    \/ \E a \in Anchors : StoreAppend(a)
    \/ \E i \in 1..MaxImages : ClickDeleteHistory(i)
    \/ clearAllGeneratedImages
    \/ \E id \in {modal.id} : deleteImageEntry(id)
    \/ ConfirmClear
    \/ ConfirmNo

SpecStore == InitStore /\ [][NextStore]_vars

\* loadSettings on an installation without settings, or with settings that
\* lack generated_images: the store is DEFAULT_SETTINGS.generated_images
\* itself (the spread and the per-key assignment copy the reference).
InitDefaults ==
    /\ settings \in LoadedSettings \cup {Configured}
    /\ images = <<>>
    /\ now = 0
    /\ disabled = [a \in Anchors |-> FALSE]
    /\ html = [a \in Anchors |-> "generate"]
    /\ jobs = <<>>
    /\ wsConnections = {}
    /\ modal = NoModal
    /\ dialogs = 0
    /\ delivered = 0
    /\ fx = Quiet("init")
    /\ form = EmptyForm
    /\ call = NoCall
    /\ defaults = [generated_images |-> <<>>, aliased |-> TRUE]
    /\ restore = NoRestore

SpecDefaults == InitDefaults /\ [][NextStore]_vars

\* --------------------------------------------- specification: settings popup
\* The settings popup and the generate buttons, from the working
\* configuration.
InitSettings ==
    /\ settings = Configured
    /\ images = StoredList(0)
    /\ now = 1
    /\ disabled = [a \in Anchors |-> FALSE]
    /\ html = [a \in Anchors |-> "original"]
    /\ jobs = <<>>
    /\ wsConnections = {}
    /\ modal = NoModal
    /\ dialogs = 0
    /\ delivered = 0
    /\ fx = Quiet("init")
    /\ form = EmptyForm
    /\ call = NoCall
    /\ defaults = OwnArray
    /\ restore = NoRestore

NextSettings ==
    \/ \E a \in Anchors : generateImage(a)
    \/ \E f \in SaveInputs : SaveSettingsClick(f)
    \/ ConfirmSave
    \/ ConfirmNo

SpecSettings == InitSettings /\ [][NextSettings]_vars

\* ------------------------------------------ settings saved during a job
\* Forms saved while a job is pending: another server and other tags, and a
\* cut-off template without tags (saved after confirmation).
ReconfigureInputs ==
    { [Configured EXCEPT !.comfyui_url = [scheme |-> "https", host |-> "g"],
                         !.custom_tags = <<",">>],
      [Configured EXCEPT !.workflow_json = <<"{", Quote, "text", Quote, ":">>,
                         !.custom_tags = <<>>] }

NextReconfigure ==
    \/ \E a \in Anchors : generateImage(a)
    \/ \E j \in JobIds : FetchResolved(j)
    \/ \E j \in JobIds : ws_onopen(j)
    \/ \E j \in JobIds : \E m \in Messages : ws_onmessage(j, m)
    \/ \E f \in ReconfigureInputs : SaveSettingsClick(f)
    \/ ConfirmSave
    \/ ConfirmNo

SpecReconfigure == InitSettings /\ [][NextReconfigure]_vars

\* ------------------------------------------------ specification: functions
\* Custom tag texts and prompts handed to FinalPrompt
TagAlphabet == {" ", "m", ","}
TagTexts == UNION { [1..n -> TagAlphabet] : n \in 0..MaxTagLen }
Prompts == { PromptOf(a) : a \in Anchors } \cup { <<" ", "a">> }

\* Documents, tokens and values handed to replaceInObject
Documents ==
    { Str(<<>>),
      Str(<<"a", "%positive%", "b", "%positive%">>),
      Num("5"),
      Arr(<< Str(<<"%seed%">>), Num("0"), Lit("null"), Str(<<"%positive%">>) >>),
      Obj(<< << <<"%positive%">>, Str(<<"%positive%", " ", "%seed%">>) >>,
             << <<"n">>, Obj(<< << <<"k">>, Arr(<< Str(<<"x", "%positive%">>) >>) >> >>) >> >>),
      JsonParse(ObjectTemplate).doc }

Tokens == { DefaultPlaceholder, <<"%seed%">> }

FillValues ==
    { <<>>, <<"c", "a", "t">>, <<"%seed%">>, <<"$", "5">>, <<"a", "$">>,
      <<"$", "$", "5">>, <<"$", "&">>, <<"a", "$", Apostrophe, "s">>, <<"$", Backtick>> }

\* randomSeed.toString(): decimal digits
Seeds == { <<"7">>, <<"4", "2">> }

\* The two passes that fill the workflow: the prompt placeholder first, the
\* seed token over the result of the first pass.
SubmittedWorkflow(workflow, placeholder, finalPrompt, randomSeed) ==
    replaceInObject(replaceInObject(workflow, placeholder, finalPrompt),
                    <<"%seed%">>, randomSeed)

IndividualDelay_Late(index) == index * 200 + 1000

\* The delay of the i-th restoration timer (index * 200)
IndividualDelay(index) == index * 200

TotalDelay_NoMargin(n) == n * 200

\* The delay of the summary timer for n candidates
TotalDelay(n) == n * 200 + 500

\* Texts handed to validateWorkflowJson
ValidateTexts ==
    Templates \cup
    { UnquotedTemplate, PlainTemplate,
      <<Bom>> \o PlainTemplate,
      <<"{", Quote, "seed", Quote, ":", Quote, "%seed%", Quote, "}">>,
      <<"{", Quote, "seed", Quote, ":", "%seed%", "}">>,
      <<"{", Quote, "s", Quote, ":", Quote, "%sampler%", Quote, "}">>,
      <<"{", Quote, "c", Quote, ":", Quote, "%custom%", Quote, "}">>,
      <<"{", Quote, "in", Quote, ":", "[", Quote, "4", Quote, ",", "0", "]", "}">>,
      <<"[", "[", "5", "]", "]">>,
      <<"{", "{", "x", "}", "}">> }

Calls ==
    [fn : {"FinalPrompt"}, args : TagTexts \X Prompts, done : {FALSE}, result : {<<>>}]
    \cup
    [fn : {"replaceInObject"}, args : Documents \X Tokens \X FillValues,
     done : {FALSE}, result : {<<>>}]
    \cup
    [fn : {"validateWorkflowJson"}, args : {<<t>> : t \in ValidateTexts},
     done : {FALSE}, result : {<<>>}]
    \cup
    [fn : {"SubmittedWorkflow"},
     args : Documents \X {DefaultPlaceholder} \X FillValues \X Seeds,
     done : {FALSE}, result : {<<>>}]
    \cup
    [fn : {"TotalDelay"}, args : {<<n>> : n \in 1..MaxImages},
     done : {FALSE}, result : {<<>>}]

InitFunctions ==
    /\ settings = Configured
    /\ images = StoredList(0)
    /\ now = 1
    /\ disabled = [a \in Anchors |-> FALSE]
    /\ html = [a \in Anchors |-> "original"]
    /\ jobs = <<>>
    /\ wsConnections = {}
    /\ modal = NoModal
    /\ dialogs = 0
    /\ delivered = 0
    /\ fx = Quiet("init")
    /\ form = EmptyForm
    /\ call \in Calls
    /\ defaults = OwnArray
    /\ restore = NoRestore

Return(result) ==
    /\ call' = [call EXCEPT !.done = TRUE, !.result = result]
    /\ UNCHANGED <<settings, defaults, images, now, disabled, html, jobs, wsConnections, modal, dialogs,
                   delivered, fx, form, restore>>

ApplyFinalPrompt ==
    /\ call.fn = "FinalPrompt"
    /\ ~call.done
    /\ Return(FinalPrompt(call.args[1], call.args[2]))

ApplyReplaceInObject ==
    /\ call.fn = "replaceInObject"
    /\ ~call.done
    /\ Return(replaceInObject(call.args[1], call.args[2], call.args[3]))

ApplyValidateWorkflowJson ==
    /\ call.fn = "validateWorkflowJson"
    /\ ~call.done
    /\ Return(validateWorkflowJson(call.args[1]))

ApplySubmittedWorkflow ==
    /\ call.fn = "SubmittedWorkflow"
    /\ ~call.done
    /\ Return(SubmittedWorkflow(call.args[1], call.args[2], call.args[3], call.args[4]))

ApplyTotalDelay ==
    /\ call.fn = "TotalDelay"
    /\ ~call.done
    /\ Return(TotalDelay(call.args[1]))

NextFunctions ==
    \/ ApplyFinalPrompt
    \/ ApplyReplaceInObject
    \/ ApplyValidateWorkflowJson
    \/ ApplySubmittedWorkflow
    \/ ApplyTotalDelay

SpecFunctions == InitFunctions /\ [][NextFunctions]_vars

\* ------------------------------------------------------------ restoration
\* A generate button (id and data-prompt attributes) and a message element
\* (.mes: mesid and id attributes, the buttons inside it in document order).
Btn(id, prompt) == [id |-> id, prompt |-> prompt]
Mes(mesid, id, buttons) == [mesid |-> mesid, id |-> id, buttons |-> buttons]

\* A button of the page is <<message position, button position>>; an empty
\* jQuery result (or null) is NoAnchor.
NoAnchor == <<0, 0>>

\* .first(): the first element in document order
First(hits) ==
    IF hits = {} THEN NoAnchor
    ELSE CHOOSE h \in hits :
            \A g \in hits : h[1] < g[1] \/ (h[1] = g[1] /\ h[2] <= g[2])

Backslash == "\\"

\* The value of the quoted string "..." of an attribute selector: a
\* backslash escapes the character after it (the prompts here put it before
\* a parenthesis, which is no hexadecimal digit).
RECURSIVE CssString(_)
CssString(text) ==
    IF text = <<>> THEN <<>>
    ELSE IF Head(text) = Backslash /\ Len(text) >= 2
    THEN <<text[2]>> \o CssString(SubSeq(text, 3, Len(text)))
    ELSE <<Head(text)>> \o CssString(Tail(text))

\* $message.find('.comfyui-generate-btn[data-prompt="<prompt>"]').first()
FindInMessage(page, m, originalPrompt) ==
    First({ <<m, b>> : b \in { k \in DOMAIN page[m].buttons :
                                 page[m].buttons[k].prompt = CssString(originalPrompt) } })

\* $(imageData.buttonSelector).first(), the selector being "#" + id
BySelector(page, selector) ==
    First({ mb \in UNION { {m} \X DOMAIN page[m].buttons : m \in DOMAIN page } :
              page[mb[1]].buttons[mb[2]].id = selector[2] })

\* $('.mes').eq(i): counted from 0, a negative i from the end; 0 when there
\* is no such message
MesEq(page, i) ==
    IF i >= 0
    THEN IF i + 1 <= Len(page) THEN i + 1 ELSE 0
    ELSE IF Len(page) + i + 1 >= 1 THEN Len(page) + i + 1 ELSE 0

\* $('[mesid="<id>"], [id="<id>"]').first(); button ids have another form
\* than message ids, so the element is a message
MesById(page, messageId) ==
    LET hits == { m \in DOMAIN page : page[m].mesid = messageId \/ page[m].id = messageId }
    IN  IF hits = {} THEN 0 ELSE CHOOSE m \in hits : \A k \in hits : m <= k

\* $('.comfyui-generate-btn[data-prompt="<prompt>"]').first()
GlobalSearch(page, originalPrompt) ==
    First(UNION { { <<m, b>> : b \in { k \in DOMAIN page[m].buttons :
                                 page[m].buttons[k].prompt = CssString(originalPrompt) } } :
                  m \in DOMAIN page })

FindAnchor_GlobalFirst(imageData, page) ==
    GlobalSearch(page, OrElse(imageData.originalPrompt, imageData.prompt))

\* $targetButton after the four look-ups of restoreStoredImages; messageIndex
\* is a number in every record saveGeneratedImage writes.
FindAnchor(imageData, page) ==
    LET originalPrompt == OrElse(imageData.originalPrompt, imageData.prompt)
        t1 == IF Truthy(imageData.buttonSelector)
              THEN BySelector(page, imageData.buttonSelector)
              ELSE NoAnchor
        t2 == IF t1 = NoAnchor /\ MesEq(page, imageData.messageIndex) # 0
              THEN FindInMessage(page, MesEq(page, imageData.messageIndex), originalPrompt)
              ELSE t1
        t3 == IF t2 = NoAnchor /\ Truthy(imageData.messageId)
                 /\ MesById(page, imageData.messageId) # 0
              THEN FindInMessage(page, MesById(page, imageData.messageId), originalPrompt)
              ELSE t2
    IN  IF t3 = NoAnchor THEN GlobalSearch(page, originalPrompt) ELSE t3

\* Position i of key in keys, 0 when absent
IndexOfKey(keys, key) ==
    IF \E i \in DOMAIN keys : keys[i] = key
    THEN CHOOSE i \in DOMAIN keys : keys[i] = key
    ELSE 0

RECURSIVE LatestImagesByPrompt_Last(_)
LatestImagesByPrompt_Last(storedImages) ==
    IF storedImages = <<>> THEN <<>>
    ELSE LET n    == Len(storedImages)
             rest == LatestImagesByPrompt_Last(SubSeq(storedImages, 1, n - 1))
             x    == storedImages[n]
             key  == OrElse(x.originalPrompt, x.prompt)
             at   == IndexOfKey([i \in DOMAIN rest |->
                                   OrElse(rest[i].originalPrompt, rest[i].prompt)], key)
         IN  IF at = 0 THEN Append(rest, x) ELSE [rest EXCEPT ![at] = x]

\* Array.from(latestImagesByPrompt.values()): the Map keeps its keys in the
\* order of their first insertion; a key's record is replaced only by one
\* with a strictly greater timestamp.
RECURSIVE LatestImagesByPrompt(_)
LatestImagesByPrompt(storedImages) ==
    IF storedImages = <<>> THEN <<>>
    ELSE LET n    == Len(storedImages)
             rest == LatestImagesByPrompt(SubSeq(storedImages, 1, n - 1))
             x    == storedImages[n]
             key  == OrElse(x.originalPrompt, x.prompt)
             at   == IndexOfKey([i \in DOMAIN rest |->
                                   OrElse(rest[i].originalPrompt, rest[i].prompt)], key)
         IN  IF at = 0 THEN Append(rest, x)
             ELSE IF x.timestamp > rest[at].timestamp THEN [rest EXCEPT ![at] = x]
             ELSE rest

\* A timer of the page: what it runs, its delay, and its place in the order
\* in which the timers were started.
RestoreTimer(index, seq) ==
    [kind |-> "restore", index |-> index, delay |-> IndividualDelay(index), seq |-> seq]
SummaryTimer(n) ==
    [kind |-> "summary", index |-> n, delay |-> TotalDelay(n), seq |-> n + 1]

\* A timer runs only after the timers started before it with a delay not
\* greater than its own.
MayFire(t, timers) ==
    \A u \in timers : ~(u.seq < t.seq /\ u.delay <= t.delay)

LoadToasts_Always(isRestored) == << <<"success", "image_shown">> >>

\* The load handler of the image displayGeneratedImage creates
LoadToasts(isRestored) ==
    IF ~isRestored THEN << <<"success", "image_shown">> >> ELSE <<>>

\* displayGeneratedImage(imageUrl, $button, prompt, isRestored) on the
\* displayed containers and the images still loading
displayGeneratedImage(r, imageUrl, button, isRestored) ==
    IF ~Truthy(button.id)
    THEN [shown |-> r.shown, loading |-> r.loading,
          toasts |-> << <<"error", "button_without_id">> >>]
    ELSE [shown   |-> { c \in r.shown : c.button # button.id }
                      \cup { [button |-> button.id, url |-> imageUrl, failed |-> FALSE] },
          loading |-> r.loading
                      \cup { [button |-> button.id, url |-> imageUrl,
                              isRestored |-> isRestored] },
          toasts  |-> <<>>]

\* Click on #comfyui-restore-images-btn
restoreStoredImages ==
    /\ restore.phase = "idle"
    /\ IF Len(images) = 0
       THEN /\ restore' = [restore EXCEPT !.phase = "done"]
            /\ fx' = Fx("restoreStoredImages", 0, "none", "", FALSE, FALSE,
                        << <<"info", "nothing_stored">> >>)
       ELSE LET imagesToRestore == LatestImagesByPrompt(images)
                n       == Len(imagesToRestore)
                anchors == [i \in 1..n |-> FindAnchor(imagesToRestore[i], restore.page)]
            IN  /\ restore' =
                     [ phase |-> "running", page |-> restore.page,
                       candidates |-> imagesToRestore, anchors |-> anchors,
                       timers |-> { RestoreTimer(i - 1, i) :
                                      i \in { k \in 1..n : anchors[k] # NoAnchor } }
                                  \cup { SummaryTimer(n) },
                       restoredCount |-> 0,
                       failedCount |-> Cardinality({ k \in 1..n : anchors[k] = NoAnchor }),
                       summaries |-> 0,
                       shown |-> {}, loading |-> restore.loading ]
                /\ fx' = Quiet("restoreStoredImages")
    /\ UNCHANGED <<settings, form, call, defaults, images, now, disabled, html, jobs,
                   wsConnections, modal, dialogs, delivered>>

\* The timer of candidate index + 1 runs; getGeneratedImage returns a
\* non-empty address at once, so the callback runs to its end in one go and
\* neither its else branch nor its catch is taken.
RestorationTimer(t) ==
    /\ t \in restore.timers
    /\ t.kind = "restore"
    /\ MayFire(t, restore.timers)
    /\ LET imageData == restore.candidates[t.index + 1]
           at        == restore.anchors[t.index + 1]
           button    == restore.page[at[1]].buttons[at[2]]
           imageUrl  == GetGeneratedImage(settings, imageData.filename, imageData.subfolder,
                                          imageData.type)
           shows     == displayGeneratedImage(restore, imageUrl, button, TRUE)
       IN  /\ restore' = [restore EXCEPT !.timers = @ \ {t},
                                         !.shown = shows.shown,
                                         !.loading = shows.loading,
                                         !.restoredCount = @ + 1]
           /\ fx' = Fx("restoration", 0, "none", "", FALSE, TRUE, shows.toasts)
    /\ UNCHANGED <<settings, form, call, defaults, images, now, disabled, html, jobs,
                   wsConnections, modal, dialogs, delivered>>

\* The summary timer runs
RestoreSummary(t) ==
    /\ t \in restore.timers
    /\ t.kind = "summary"
    /\ MayFire(t, restore.timers)
    /\ restore' = [restore EXCEPT !.timers = @ \ {t},
                                  !.summaries = @ + 1,
                                  !.phase = "done"]
    /\ fx' = Fx("summary", 0, "none", "", FALSE, FALSE,
                (IF restore.restoredCount > 0
                 THEN << <<"success", "restored", restore.restoredCount>> >> ELSE <<>>)
                \o (IF restore.failedCount > 0
                    THEN << <<"warning", "not_restored", restore.failedCount>> >> ELSE <<>>)
                \o (IF restore.restoredCount = 0 /\ restore.failedCount = 0
                       /\ Len(restore.candidates) > 0
                    THEN << <<"warning", "no_position_found">> >> ELSE <<>>))
    /\ UNCHANGED <<settings, form, call, defaults, images, now, disabled, html, jobs,
                   wsConnections, modal, dialogs, delivered>>

\* The load event of a displayed image
ImageLoaded(x) ==
    /\ x \in restore.loading
    /\ restore' = [restore EXCEPT !.loading = @ \ {x}]
    /\ fx' = Fx("img_load", 0, "none", "", FALSE, FALSE, LoadToasts(x.isRestored))
    /\ UNCHANGED <<settings, form, call, defaults, images, now, disabled, html, jobs,
                   wsConnections, modal, dialogs, delivered>>

\* The error event of a displayed image: the container shows the failure
ImageFailed(x) ==
    /\ x \in restore.loading
    /\ restore' = [restore EXCEPT
                     !.loading = @ \ {x},
                     !.shown = { IF c.button = x.button /\ c.url = x.url
                                 THEN [c EXCEPT !.failed = TRUE]
                                 ELSE c : c \in @ }]
    /\ fx' = Quiet("img_error")
    /\ UNCHANGED <<settings, form, call, defaults, images, now, disabled, html, jobs,
                   wsConnections, modal, dialogs, delivered>>

\* ---------------------------------------------- specification: restoration
Cat == <<"c", "a", "t">>
Dog == <<"d", "o", "g">>
Escaped == <<"f", Backslash, "(", "x", Backslash, ")">>

\* What generateImage hands to saveGeneratedImage for button k, found in the
\* message at position index with the given mesid
RestoreInfo(k, prompt, index, messageId) ==
    [ id             |-> <<"comfyui-btn", k>>,
      url            |-> GetGeneratedImage(Configured, <<"f.png", k>>, "", "output"),
      prompt         |-> FinalPrompt(Configured.custom_tags, prompt),
      originalPrompt |-> prompt,
      customTags     |-> Configured.custom_tags,
      filename       |-> <<"f.png", k>>,
      subfolder      |-> "",
      type           |-> "output",
      buttonId       |-> <<"comfyui-btn", k>>,
      messageIndex   |-> index,
      messageId      |-> messageId,
      buttonSelector |-> <<"#", <<"comfyui-btn", k>> >> ]

\* The store after the given saves, oldest first, each <<imageInfo, clock>>
RECURSIVE StoreAfter(_)
StoreAfter(saves) ==
    IF saves = <<>> THEN <<>>
    ELSE LET n == Len(saves)
         IN  SavedImages(StoreAfter(SubSeq(saves, 1, n - 1)), saves[n][1], saves[n][2])

M(k) == <<"mesid", k>>

RestoreStores ==
    { StoreAfter(<<>>),
      StoreAfter(<< <<RestoreInfo(1, Cat, 0, M(0)), 1>> >>),
      StoreAfter(<< <<RestoreInfo(1, Cat, 0, M(0)), 1>>,
                    <<RestoreInfo(3, Cat, 1, M(1)), 2>> >>),
      StoreAfter(<< <<RestoreInfo(1, Cat, 0, M(0)), 1>>,
                    <<RestoreInfo(2, Dog, 1, M(1)), 1>>,
                    <<RestoreInfo(1, Cat, 0, M(0)), 2>> >>),
      StoreAfter(<< <<RestoreInfo(3, Cat, 1, M(1)), 1>>,
                    <<RestoreInfo(1, Cat, 0, M(0)), 1>>,
                    <<RestoreInfo(2, Dog, 1, EmptyStr), 2>>,
                    <<RestoreInfo(4, EmptyStr, 0, M(0)), 2>> >>),
      StoreAfter(<< <<RestoreInfo(1, Escaped, 0, M(0)), 1>>,
                    <<RestoreInfo(2, Dog, 1, M(1)), 2>> >>) }

\* Pages the chat can show when restoration is asked for: as it was when
\* the images were made, after a reload (new button ids), with the first
\* message deleted, another chat with the prompts elsewhere, messages
\* holding the same prompt, a prompt with backslashes, and an empty chat.
Pages ==
    { << Mes(M(0), EmptyStr, << Btn(<<"comfyui-btn", 1>>, Cat),
                                 Btn(<<"comfyui-btn", 4>>, EmptyStr) >>),
         Mes(M(1), EmptyStr, << Btn(<<"comfyui-btn", 2>>, Dog),
                                 Btn(<<"comfyui-btn", 3>>, Cat) >>) >>,
      << Mes(M(0), EmptyStr, << Btn(<<"comfyui-btn", 11>>, Cat) >>),
         Mes(M(1), EmptyStr, << Btn(<<"comfyui-btn", 12>>, Dog),
                                 Btn(<<"comfyui-btn", 13>>, Cat) >>) >>,
      << Mes(M(1), EmptyStr, << Btn(<<"comfyui-btn", 12>>, Dog),
                                 Btn(<<"comfyui-btn", 13>>, Cat) >>) >>,
      << Mes(M(5), EmptyStr, << Btn(<<"comfyui-btn", 12>>, Dog),
                                 Btn(<<"comfyui-btn", 14>>, Cat) >>),
         Mes(M(6), EmptyStr, << >>),
         Mes(M(1), EmptyStr, << Btn(<<"comfyui-btn", 11>>, Cat) >>) >>,
      << Mes(M(3), EmptyStr, << Btn(<<"comfyui-btn", 21>>, Cat) >>),
         Mes(EmptyStr, M(0), << Btn(<<"comfyui-btn", 22>>, Dog),
                                 Btn(<<"comfyui-btn", 23>>, Cat) >>),
         Mes(M(7), EmptyStr, << Btn(<<"comfyui-btn", 1>>, Cat) >>) >>,
      << Mes(M(0), EmptyStr, << Btn(<<"comfyui-btn", 11>>, Escaped),
                                 Btn(<<"comfyui-btn", 12>>, <<"f", "(", "x", ")">>) >>) >>,
      << >> }

InitRestore ==
    /\ settings = Configured
    /\ images \in RestoreStores
    /\ now = 2
    /\ disabled = [a \in Anchors |-> FALSE]
    /\ html = [a \in Anchors |-> "original"]
    /\ jobs = <<>>
    /\ wsConnections = {}
    /\ modal = NoModal
    /\ dialogs = 0
    /\ delivered = 0
    /\ fx = Quiet("init")
    /\ form = EmptyForm
    /\ call = NoCall
    /\ defaults = OwnArray
    /\ restore \in { IdleOn(page) : page \in Pages }

NextRestore ==
    \/ restoreStoredImages
    \/ \E t \in restore.timers : RestorationTimer(t)
    \/ \E t \in restore.timers : RestoreSummary(t)
    \/ \E x \in restore.loading : ImageLoaded(x)
    \/ \E x \in restore.loading : ImageFailed(x)

SpecRestore == InitRestore /\ [][NextRestore]_vars

\* ================================================================ claims
LastJobOf(a) ==
    IF \E j \in JobIds : jobs[j].anchor = a
    THEN CHOOSE j \in JobIds :
            jobs[j].anchor = a /\ \A k \in JobIds : jobs[k].anchor = a => k <= j
    ELSE 0

Idle(a) == ~disabled[a] /\ html[a] = "original"

\* C1: under append, remove and clear from a store of at most 100 records
\* the store never holds more than 100 records, and an append onto a store
\* of exactly 100 puts the new record first, keeps records 1..99 behind it
\* in their order and drops record 100.
C1_StoreCap ==
    /\ [](Len(images) <= MaxImages)
    /\ [][\A a \in Anchors :
            (StoreAppend(a) /\ Len(images) = MaxImages)
            => /\ Len(images') = MaxImages
               /\ images'[1].id = ButtonId(a)
               /\ images'[1].timestamp = now'
               /\ Tail(images') = SubSeq(images, 1, MaxImages - 1)]_vars

\* C1 witness: an append has pushed the oldest stored record out of a full store
C1_Witness ==
    /\ Len(images) = MaxImages
    /\ dialogs = 0
    /\ fx.op = "saveGeneratedImage"
    /\ images[1].buttonId \in {ButtonId(a) : a \in Anchors}
    /\ images[MaxImages] = StoredRecord(2)
    /\ ~HasId(images, StoredRecord(1).id)

\* C2 (as claimed): a record a job appends carries the client id the job
\* sent with its submission.
C2_IdIsClientId ==
    (fx.op = "onmessage" /\ fx.saved) => images[1].id = ClientId(fx.job)

\* C3 (as claimed): removing an id that is present takes exactly one record
\* out and keeps the others in order.
C3_RemoveOne ==
    [][\A id \in {modal.id} :
        (deleteImageEntry(id) /\ HasId(images, id))
        => /\ Len(images') = Len(images) - 1
           /\ images' = FilterOut(images, id)]_vars

\* C4: removing an id no stored record has leaves the record sequence as it
\* was, makes no persistence call and no history re-render, and reports
\* 'not found'.
C4_RemoveAbsent ==
    [][\A id \in {modal.id} :
        (deleteImageEntry(id) /\ ~HasId(images, id))
        => /\ images' = images
           /\ ~fx'.saved
           /\ ~fx'.rendered
           /\ fx'.toasts = << <<"error", "record_not_found">> >>]_vars

\* C4 witness: the dialog was confirmed for a record that an append had
\* meanwhile pushed out of the full store
C4_Witness ==
    /\ fx.op = "deleteImageEntry"
    /\ fx.toasts = << <<"error", "record_not_found">> >>
    /\ Len(images) = MaxImages
    /\ delivered >= 1

\* C5 (as claimed): a job that has ended - by a callback, by the catch block
\* or by its channel closing - leaves its button idle.
C5_TerminalIdle ==
    \A a \in Anchors :
        LET j == LastJobOf(a)
        IN  (j # 0 /\ (jobs[j].resolved \/ jobs[j].ws = "closed")) => Idle(a)

\* C6 (as claimed): while a submitted job is unresolved its button is disabled.
C6_PendingDisabled ==
    \A j \in JobIds :
        (jobs[j].http \in {"pending", "ok"} /\ ~jobs[j].resolved)
        => disabled[jobs[j].anchor]

\* C7 (as claimed): every transport failure handler calls onError and
\* leaves no registry entry for the job.
C7_TransportFailure ==
    [][/\ \A j \in JobIds :
            (ws_onerror(j) \/ ws_onclose(j))
            => (fx'.cb = "onError" /\ fx'.job = j /\ ClientId(j) \notin wsConnections')
       /\ \A a \in Anchors :
            (generateImage(a) /\ Len(jobs') > Len(jobs) /\ jobs'[Len(jobs')].ws = "none")
            => (fx'.cb = "onError" /\ ClientId(Len(jobs')) \notin wsConnections')]_vars

\* C8 (as claimed): the registry holds no entry of a finished job.
C8_NoEntryOfFinishedJob ==
    \A j \in JobIds : jobs[j].resolved => ClientId(j) \notin wsConnections

\* A message that is neither 'executed' carrying an image list nor
\* 'execution_error' (housekeeping types, other types, unparsable frames)
NonResolving(m) ==
    /\ ~(m.parsed /\ m.type = "executed" /\ m.hasImages)
    /\ ~(m.parsed /\ m.type = "execution_error")

\* C9: a message that is neither 'executed' with an image list nor
\* 'execution_error' reaches neither callback and changes neither the
\* buttons, the store nor the registry.
C9_Ignored ==
    [][\A j \in JobIds : \A m \in Messages :
        (ws_onmessage(j, m) /\ NonResolving(m))
        => /\ fx'.cb = "none"
           /\ fx'.toasts = <<>>
           /\ UNCHANGED <<disabled, html, images, wsConnections>>]_vars

\* C9 witness: a pending job's channel has just handled an ignored message
C9_Witness ==
    /\ fx.op = "onmessage"
    /\ fx.cb = "none"
    /\ \E j \in JobIds :
          /\ jobs[j].ws = "open"
          /\ ~jobs[j].resolved
          /\ disabled[jobs[j].anchor]
          /\ ClientId(j) \in wsConnections

\* C10 (as claimed): an 'executed' event with at least one descriptor
\* appends one record that carries the first descriptor and the owning
\* job's original prompt, submitted prompt and button id.
C10_RecordOfJob ==
    (fx.op = "onmessage" /\ fx.saved)
    => /\ images[1].filename = FirstDescriptor.filename
       /\ images[1].subfolder = FirstDescriptor.subfolder
       /\ images[1].type = FirstDescriptor.type
       /\ images[1].originalPrompt = jobs[fx.job].prompt
       /\ images[1].prompt = jobs[fx.job].finalPrompt
       /\ images[1].buttonId = ButtonId(jobs[fx.job].anchor)

\* A message that ends a job without an image: 'execution_error', or
\* 'executed' with an empty image list
ErrorOutcome(m) ==
    /\ m.parsed
    /\ \/ m.type = "execution_error"
       \/ m.type = "executed" /\ m.hasImages /\ m.images = <<>>

\* C11: an 'execution_error' message and an 'executed' message with an
\* empty image list append no record, make no persistence call, raise an
\* error toast and no success toast; for 'execution_error' the toast carries
\* the server's exception_message, or the default text when there is none.
C11_ErrorPersistsNothing ==
    [][\A j \in JobIds : \A m \in Messages :
        (ws_onmessage(j, m) /\ ErrorOutcome(m))
        => /\ images' = images
           /\ ~fx'.saved
           /\ fx'.toasts # <<>>
           /\ \A i \in 1..Len(fx'.toasts) : fx'.toasts[i][1] = "error"
           /\ m.type = "execution_error"
              => fx'.toasts[1][2] = IF m.exception_message = ""
                                    THEN "unknown_error"
                                    ELSE m.exception_message]_vars

\* C11 witness: after one image was stored, an 'execution_error' carrying a
\* message has been reported and the store still holds the one record
C11_Witness ==
    /\ fx.op = "onmessage"
    /\ fx.cb = "onError"
    /\ fx.toasts = << <<"error", "oom">> >>
    /\ Len(images) = 1
    /\ delivered = 2

\* The settings make generateImage fail before it submits anything
FailsBeforeSubmission(st) ==
    \/ st.comfyui_url = NoUrl
    \/ st.workflow_json = <<>>
    \/ ~JsonParse(StripBom(Trim(st.workflow_json))).ok
    \/ JsonParse(StripBom(Trim(st.workflow_json))).doc.t \in {"string", "number"}

\* C12: when the address or the template is not configured, the template
\* does not parse or parses to something that is not an object, a click
\* opens no channel, submits nothing, appends no record and leaves the
\* button idle.
C12_FailsBeforeSubmission ==
    [][\A a \in Anchors :
        (generateImage(a) /\ FailsBeforeSubmission(settings))
        => /\ jobs' = jobs
           /\ wsConnections' = wsConnections
           /\ images' = images
           /\ ~disabled'[a]
           /\ html'[a] = "original"]_vars

\* C12 witness: a click with a template that parses to a number has been
\* turned down by the catch block
C12_Witness ==
    /\ fx.op = "generateImage"
    /\ fx.toasts = << <<"generate_failed", "workflow_processing">> >>
    /\ settings.workflow_json = <<"5">>
    /\ jobs = <<>>
    /\ \A a \in Anchors : Idle(a)

\* C13 (as claimed): the button of a submitted, pending job becomes idle
\* only in a step of that job's own channel (a message or an error).
C13_OnlyOwnChannel ==
    [][\A j \in JobIds :
        (/\ j = LastJobOf(jobs[j].anchor)
         /\ jobs[j].http = "ok"
         /\ ~jobs[j].resolved
         /\ disabled[jobs[j].anchor]
         /\ ~disabled'[jobs[j].anchor])
        => \/ ws_onerror(j)
           \/ \E m \in Messages : ws_onmessage(j, m)]_vars

\* C14: nothing is retried: only a click adds a job, and it adds one; a
\* submission that has been answered or has failed is never pending again;
\* a channel that failed, closed or was never created is never connecting or
\* open again; the registry gains no entry but that of a click's new job.
C14_NoRetry ==
    [][/\ Len(jobs') <= Len(jobs) + 1
       /\ Len(jobs') >= Len(jobs)
       /\ Len(jobs') > Len(jobs) => \E a \in Anchors : generateImage(a)
       /\ wsConnections' \subseteq
             (wsConnections \cup
                 (IF Len(jobs') > Len(jobs) THEN {ClientId(Len(jobs'))} ELSE {}))
       /\ \A j \in JobIds :
             /\ jobs'[j].anchor = jobs[j].anchor
             /\ jobs[j].http # "pending" => jobs'[j].http = jobs[j].http
             /\ jobs[j].ws \in {"none", "errored", "closed"}
                => jobs'[j].ws \in {jobs[j].ws, "closed"}
             /\ jobs[j].ws = "open" => jobs'[j].ws # "connecting"]_vars

\* C14 witness: after a job whose submission failed and whose channel is
\* closed, a new click on the same button runs under a new client id
C14_Witness ==
    /\ Len(jobs) = 2
    /\ jobs[1].http = "failed"
    /\ jobs[1].ws = "closed"
    /\ jobs[2].anchor = jobs[1].anchor
    /\ jobs[2].http = "pending"
    /\ wsConnections = {ClientId(2)}

\* s without the whitespace at its two ends
Stripped(s) ==
    LET inner == {i \in 1..Len(s) : ~IsSpace(s[i])}
    IN  IF inner = {} THEN <<>>
        ELSE SubSeq(s, CHOOSE i \in inner : \A k \in inner : i <= k,
                       CHOOSE i \in inner : \A k \in inner : k <= i)

\* C15: the submitted prompt is the custom tags without surrounding
\* whitespace, then ", ", then the original prompt; when the tags are empty
\* or all whitespace it is the original prompt.
C15_SubmittedPrompt ==
    (call.fn = "FinalPrompt" /\ call.done)
    => call.result = IF Stripped(call.args[1]) = <<>>
                     THEN call.args[2]
                     ELSE Stripped(call.args[1]) \o <<",", " ">> \o call.args[2]

\* C15 witness: tags with a space on either side have been joined to a prompt
C15_Witness ==
    /\ call.fn = "FinalPrompt"
    /\ call.done
    /\ call.args = << <<" ", "m", " ">>, <<"c", "a", "t">> >>
    /\ call.result = <<"m", ",", " ", "c", "a", "t">>

\* str with every occurrence of token replaced by the text value
RECURSIVE Substituted(_, _, _)
Substituted(str, token, value) ==
    IF str = <<>> THEN <<>>
    ELSE IF StartsWith(str, 1, token)
    THEN value \o Substituted(SubSeq(str, Len(token) + 1, Len(str)), token, value)
    ELSE <<Head(str)>> \o Substituted(Tail(str), token, value)

\* doc with every string leaf substituted, shape and other leaves kept
RECURSIVE Filled(_, _, _)
Filled(doc, token, value) ==
    CASE doc.t = "string" -> [doc EXCEPT !.v = Substituted(@, token, value)]
      [] doc.t = "array"  -> [doc EXCEPT !.v = [i \in DOMAIN @ |-> Filled(@[i], token, value)]]
      [] doc.t = "object" -> [doc EXCEPT !.v = [i \in DOMAIN @ |->
                                                   <<@[i][1], Filled(@[i][2], token, value)>>]]
      [] OTHER            -> doc

\* C16 (as claimed): replaceInObject returns the document with the same
\* shape, every occurrence of the token in a string leaf replaced by the
\* value and every other leaf as it was.
C16_FillsEveryOccurrence ==
    (call.fn = "replaceInObject" /\ call.done)
    => call.result = Filled(call.args[1], call.args[2], call.args[3])

\* C17: a click on a generate button and a save click that ends without
\* saving (validation included) leave the stored template as it is; the
\* stored template changes only in a step that saves, to the text the
\* template field holds, without its surrounding whitespace.
C17_TemplateKept ==
    [][/\ \A a \in Anchors :
            generateImage(a) => settings'.workflow_json = settings.workflow_json
       /\ \A f \in SaveInputs :
            (SaveSettingsClick(f) /\ ~fx'.saved)
            => settings'.workflow_json = settings.workflow_json
       /\ settings'.workflow_json # settings.workflow_json
          => /\ fx'.saved
             /\ settings'.workflow_json = Stripped(form'.workflow_json)]_vars

\* C17 witness: after a save click that was validated and a generation that
\* went out, the stored template still holds its placeholder token
C17_Witness ==
    /\ fx.op = "generateImage"
    /\ Len(jobs) >= 1
    /\ jobs[Len(jobs)].http = "pending"
    /\ form # EmptyForm
    /\ \E i \in 1..Len(settings.workflow_json) : settings.workflow_json[i] = "%positive%"

\* A text that is JSON as it stands and holds a placeholder token (which is
\* then inside a string)
QuotedPlaceholder(text) ==
    /\ JsonParse(text).ok
    /\ \E i \in 1..Len(text) : text[i] \in PercentTokens

\* C18 (as claimed): validateWorkflowJson accepts every JSON text with a
\* recognized placeholder inside a quoted string.
C18_QuotedPlaceholderValid ==
    (call.fn = "validateWorkflowJson" /\ call.done /\ QuotedPlaceholder(call.args[1]))
    => call.result = TRUE

\* The typed values ask for a confirmation: an address, and a template that
\* fails validation or lacks the typed placeholder
NeedsConfirmation(f) ==
    /\ f.comfyui_url # NoUrl
    /\ Stripped(f.workflow_json) # <<>>
    /\ \/ ~validateWorkflowJson(f.workflow_json)
       \/ ~Includes(Stripped(f.workflow_json),
                    IF Stripped(f.prompt_placeholder) = <<>>
                    THEN <<"%positive%">>
                    ELSE Stripped(f.prompt_placeholder))

\* What C19 says of every step but the confirmation: a save click with
\* values that need confirmation stores nothing and opens the dialog,
\* cancelling stores nothing, and a save click without an address stores
\* nothing.
C19_Guarded ==
    /\ \A f \in SaveInputs :
          SaveSettingsClick(f)
          => /\ f.comfyui_url = NoUrl => (settings' = settings /\ modal' = NoModal)
             /\ NeedsConfirmation(f)
                => (settings' = settings
                    /\ modal'.kind \in {"force_save", "missing_placeholder"})
    /\ (ConfirmNo /\ modal.kind \in {"force_save", "missing_placeholder"})
       => settings' = settings

\* C19 (as claimed): ... and on confirmation the four fields are stored
\* exactly as entered.
C19_StoredAsEntered ==
    [][/\ C19_Guarded
       /\ ConfirmSave => settings' = form]_vars

\* C19 (amended): ... and on confirmation the four fields are stored as
\* entered without their surrounding whitespace, an empty placeholder as
\* "%positive%".
C19_StoredTrimmed ==
    [][/\ C19_Guarded
       /\ ConfirmSave
          => settings' =
                [ comfyui_url        |-> form.comfyui_url,
                  workflow_json      |-> Stripped(form.workflow_json),
                  custom_tags        |-> Stripped(form.custom_tags),
                  prompt_placeholder |-> IF Stripped(form.prompt_placeholder) = <<>>
                                         THEN <<"%positive%">>
                                         ELSE Stripped(form.prompt_placeholder) ]]_vars

\* C19 witness: a template without the typed placeholder was saved on
\* confirmation, the placeholder stored without the space typed before it
C19_Witness ==
    /\ fx.op = "confirmSave"
    /\ form.prompt_placeholder = <<" ", "%custom%">>
    /\ settings.prompt_placeholder = <<"%custom%">>
    /\ settings.workflow_json = PlainTemplate
    /\ modal = NoModal

\* C20: a step of one job's channel changes no other button and no other
\* job; an image it stores goes in front of all records stored before,
\* which stay.
C20_Independent ==
    [][\A j \in JobIds :
        (\/ ws_onopen(j)
         \/ ws_onerror(j)
         \/ ws_onclose(j)
         \/ \E m \in Messages : ws_onmessage(j, m))
        => /\ \A a \in Anchors \ {jobs[j].anchor} :
                 disabled'[a] = disabled[a] /\ html'[a] = html[a]
           /\ \A k \in JobIds \ {j} : jobs'[k] = jobs[k]
           /\ images' # images
              => /\ Tail(images') = images
                 /\ images'[1].id = ButtonId(jobs[j].anchor)]_vars

\* C20 witness: two jobs on different buttons have both stored their image,
\* the one that finished last in front
C20_Witness ==
    /\ Len(jobs) = 2
    /\ jobs[1].anchor # jobs[2].anchor
    /\ jobs[1].resolved /\ jobs[2].resolved
    /\ Len(images) = 2
    /\ fx.op = "onmessage" /\ fx.saved
    /\ images[1].id = ButtonId(jobs[fx.job].anchor)
    /\ \E k \in JobIds \ {fx.job} : images[2].id = ButtonId(jobs[k].anchor)

\* C21: the store is ordered newest first: timestamps never increase along
\* the list, and an append puts the record it stamps with the clock reading
\* in front.
C21_NewestFirst ==
    /\ [](\A i \in 1..Len(images) : \A k \in 1..Len(images) :
            i < k => images[i].timestamp >= images[k].timestamp)
    /\ [][\A a \in Anchors :
            StoreAppend(a)
            => /\ now' >= now
               /\ images'[1].timestamp = now'
               /\ images'[1].id = ButtonId(a)]_vars

\* C21 witness: after two appends at different clock readings and a
\* removal, the later record is in front of the earlier one
C21_Witness ==
    /\ fx.op = "deleteImageEntry"
    /\ fx.saved
    /\ Len(images) >= 3
    /\ images[1].timestamp = 2
    /\ images[2].timestamp = 1
    /\ images[3].timestamp = 0

\* C27 (as claimed): an 'executed' or 'execution_error' message that
\* arrives on the channel of a job already resolved appends no record and
\* leaves the buttons as they are.
C27_AtMostOneRecord ==
    [][\A j \in JobIds : \A m \in Messages :
        (ws_onmessage(j, m) /\ jobs[j].resolved /\ ~NonResolving(m))
        => /\ images' = images
           /\ disabled' = disabled
           /\ html' = html]_vars


\* C30 (as claimed): store operations never change the default settings:
\* after loadSettings has installed the defaults and records have been
\* appended, DEFAULT_SETTINGS.generated_images is still the empty list.
C30_DefaultsUntouched == defaults.generated_images = <<>>


\* str with the placeholder and the seed token of the template replaced in
\* one pass: inserted text is not looked at again
RECURSIVE SubstitutedBoth(_, _, _, _)
SubstitutedBoth(str, placeholder, prompt, seed) ==
    IF str = <<>> THEN <<>>
    ELSE IF StartsWith(str, 1, placeholder)
    THEN prompt \o SubstitutedBoth(SubSeq(str, Len(placeholder) + 1, Len(str)),
                                   placeholder, prompt, seed)
    ELSE IF StartsWith(str, 1, <<"%seed%">>)
    THEN seed \o SubstitutedBoth(SubSeq(str, 2, Len(str)), placeholder, prompt, seed)
    ELSE <<Head(str)>> \o SubstitutedBoth(Tail(str), placeholder, prompt, seed)

RECURSIVE FilledBoth(_, _, _, _)
FilledBoth(doc, placeholder, prompt, seed) ==
    CASE doc.t = "string" -> [doc EXCEPT !.v = SubstitutedBoth(@, placeholder, prompt, seed)]
      [] doc.t = "array"  -> [doc EXCEPT !.v = [i \in DOMAIN @ |->
                                                   FilledBoth(@[i], placeholder, prompt, seed)]]
      [] doc.t = "object" -> [doc EXCEPT !.v = [i \in DOMAIN @ |->
                                   <<@[i][1], FilledBoth(@[i][2], placeholder, prompt, seed)>>]]
      [] OTHER            -> doc

\* C29 (as claimed): the submitted document has the prompt verbatim where
\* the placeholder stood and the seed where "%seed%" stood in the template;
\* the seed pass rewrites nothing the prompt pass inserted. Stated for
\* prompts without "$", so that the replacement patterns of C16 play no part.
C29_SeedPassSparesPrompt ==
    (/\ call.fn = "SubmittedWorkflow"
     /\ call.done
     /\ \A i \in DOMAIN call.args[3] : call.args[3][i] # "$")
    => call.result = FilledBoth(call.args[1], call.args[2], call.args[3], call.args[4])

\* the sum of the delays of the n individual timers, 200*i for i = 0..n-1
RECURSIVE SumOfDelays(_)
SumOfDelays(n) == IF n = 0 THEN 0 ELSE SumOfDelays(n - 1) + 200 * (n - 1)

\* C25 (as claimed): the delay of the summary timer is at least the sum of
\* the delays of all n individual timers plus the margin of 500 ms.
C25_CoversSumOfDelays ==
    (call.fn = "TotalDelay" /\ call.done)
    => call.result >= SumOfDelays(call.args[1]) + 500

\* C25 (amended): the delay of the summary timer is at least the greatest
\* individual delay, 200*(n-1), plus the margin of 500 ms; the timers run
\* side by side, so this is what lets every restoration start first.
C25_CoversGreatestDelay ==
    (call.fn = "TotalDelay" /\ call.done)
    => /\ \A i \in 0..(call.args[1] - 1) :
            call.result >= IndividualDelay(i) + 500
       /\ call.result >= 200 * (call.args[1] - 1) + 500

\* C25 witness: the delay has been computed for a full store
C25_Witness ==
    /\ call.fn = "TotalDelay"
    /\ call.done
    /\ call.args[1] = MaxImages
    /\ call.result = 20500


\* C28 (as claimed): a record saved by a job's callback reflects the
\* configuration the job was submitted with, whatever has been saved in
\* between: its url points to the server the request went to, and its
\* customTags are the tags that were prefixed to its submitted prompt.
C28_RecordOfSubmission ==
    (fx.op = "onmessage" /\ fx.saved)
    => /\ images[1].url.server = jobs[fx.job].server
       /\ images[1].prompt = jobs[fx.job].finalPrompt
       /\ images[1].prompt = FinalPrompt(images[1].customTags, jobs[fx.job].prompt)


\* the records of the store with the given original prompt
WithPrompt(key) == { i \in DOMAIN images : images[i].originalPrompt = key }

\* C22: once restoration has been asked for, the candidates hold exactly
\* one record for every original prompt in the store, each a record of the
\* store whose timestamp is the greatest among the records of its prompt.
C22_OnePerPrompt ==
    restore.phase # "idle"
    => LET c == restore.candidates
       IN  /\ \A i \in DOMAIN images :
                 \E k \in DOMAIN c : c[k].originalPrompt = images[i].originalPrompt
           /\ \A k \in DOMAIN c : \A l \in DOMAIN c :
                 k # l => c[k].originalPrompt # c[l].originalPrompt
           /\ \A k \in DOMAIN c :
                 /\ \E i \in WithPrompt(c[k].originalPrompt) : images[i] = c[k]
                 /\ \A i \in WithPrompt(c[k].originalPrompt) :
                       c[k].timestamp >= images[i].timestamp

\* C22 witness: a store of three records, two of them of one prompt made at
\* different times, has given two candidates
C22_Witness ==
    /\ restore.phase = "running"
    /\ Len(images) = 3
    /\ Len(restore.candidates) = 2
    /\ \E i \in DOMAIN images : \E k \in DOMAIN images :
          /\ images[i].originalPrompt = images[k].originalPrompt
          /\ images[i].timestamp > images[k].timestamp

\* the four look-ups, each taken on its own
StageA(r, page) ==
    IF Truthy(r.buttonSelector) THEN BySelector(page, r.buttonSelector) ELSE NoAnchor
StageB(r, page) ==
    IF MesEq(page, r.messageIndex) # 0
    THEN FindInMessage(page, MesEq(page, r.messageIndex), r.originalPrompt)
    ELSE NoAnchor
StageC(r, page) ==
    IF Truthy(r.messageId) /\ MesById(page, r.messageId) # 0
    THEN FindInMessage(page, MesById(page, r.messageId), r.originalPrompt)
    ELSE NoAnchor
StageD(r, page) == GlobalSearch(page, r.originalPrompt)

\* the result of the first look-up that finds a button
FirstLive(r, page) ==
    LET stages == <<StageA(r, page), StageB(r, page), StageC(r, page), StageD(r, page)>>
        live   == { i \in 1..4 : stages[i] # NoAnchor }
    IN  IF live = {} THEN NoAnchor
        ELSE stages[CHOOSE i \in live : \A k \in live : i <= k]

\* C23: the anchor of every candidate is the result of the first of the
\* look-ups (a) selector, (b) message index and prompt, (c) message id and
\* prompt, (d) prompt anywhere, that finds a button; the candidates counted
\* as failed are those for which none finds one, and exactly the others get
\* a restoration.
C23_FirstStageWins ==
    restore.phase # "idle"
    => LET c == restore.candidates
           failed == { k \in DOMAIN c : FirstLive(c[k], restore.page) = NoAnchor }
       IN  /\ \A k \in DOMAIN c : restore.anchors[k] = FirstLive(c[k], restore.page)
           /\ restore.failedCount = Cardinality(failed)
           /\ restore.restoredCount
                + Cardinality({ t \in restore.timers : t.kind = "restore" })
              = Len(c) - Cardinality(failed)

\* C23 witness: a candidate whose selector and message index find nothing
\* has got the button found through its message id, which is not the one a
\* search of the whole page finds
C23_Witness ==
    /\ restore.phase = "running"
    /\ \E k \in DOMAIN restore.candidates :
          LET r == restore.candidates[k]
          IN  /\ StageA(r, restore.page) = NoAnchor
              /\ StageB(r, restore.page) = NoAnchor
              /\ StageC(r, restore.page) # NoAnchor
              /\ StageD(r, restore.page) # StageC(r, restore.page)
              /\ restore.anchors[k] = StageC(r, restore.page)

\* C24: a run of restoreStoredImages with candidates has its summary
\* pending or made, never made twice; the summary is made when no
\* restoration is still waiting, and the two counters then add up to the
\* number of candidates.
C24_SummaryLast ==
    /\ [](/\ restore.summaries <= 1
          /\ restore.phase = "running"
             => /\ restore.summaries = 0
                /\ Cardinality({ t \in restore.timers : t.kind = "summary" }) = 1
          /\ (restore.phase = "done" /\ Len(restore.candidates) > 0)
             => /\ restore.summaries = 1
                /\ restore.timers = {}
                /\ restore.restoredCount + restore.failedCount = Len(restore.candidates))
    /\ [][\A t \in restore.timers :
            RestoreSummary(t)
            => /\ \A u \in restore.timers : u.kind # "restore"
               /\ restore.restoredCount + restore.failedCount = Len(restore.candidates)
               /\ restore'.summaries = 1]_vars

\* C24 witness: the summary has been made after two restorations and one
\* failure
C24_Witness ==
    /\ fx.op = "summary"
    /\ restore.summaries = 1
    /\ restore.restoredCount = 2
    /\ restore.failedCount = 1
    /\ Len(fx.toasts) = 2

RestoreOps == {"restoreStoredImages", "restoration", "summary", "img_load", "img_error"}

\* C26: no step of a restoration, the loading of a restored image included,
\* gives the notification of a displayed image, and none changes the store.
C26_QuietAndReadOnly ==
    /\ [](fx.op \in RestoreOps
          => \A i \in DOMAIN fx.toasts : fx.toasts[i] # <<"success", "image_shown">>)
    /\ [][NextRestore => images' = images]_vars

\* C26 witness: a restored image has loaded
C26_Witness ==
    /\ fx.op = "img_load"
    /\ restore.restoredCount >= 1
    /\ Len(images) >= 1
    /\ \E c \in restore.shown : ~c.failed

====
